---- MODULE Spec2Model ----
(***************************************************************************)
(* EpidemicModel (src/epimodel.py): a discrete-day, discrete-agent SEIR    *)
(* simulation with quarantine, vaccination, masking and distancing.        *)
(*                                                                         *)
(* One model object is followed from construction through its apply_*      *)
(* calls and its sim() calls.  sim() is split into its three parts: the    *)
(* re-initialisation, one iteration of the day loop, and the conversion to *)
(* data frames at the end.  Every random draw of the code is a             *)
(* nondeterministic choice over the outcomes the draw can have.            *)
(*                                                                         *)
(* Probabilities are exact fractions: a probability given to the model is  *)
(* a numerator over Resolution, the masked transmission probability a      *)
(* numerator over Resolution^2.                                            *)
(***************************************************************************)
EXTENDS Integers, Sequences, FiniteSets

\* ---------------------------------------------------------------- bounds
MaxN == 2
MaxDays == 2
MaxTrigger == 1
MaxCalls == 1
MaxRuns == 2
MaxSaves == 2
Resolution == 2

\* ------------------------------------------------------- program constants
SUSCEPTIBLE == 0
EXPOSED == 1
INFECTIOUS == 2
RECOVERED == 3
QUARANTINED == 1
VACCINATED == 1

\* Python's None in an optional integer field or argument, encoded below every
\* day, threshold and count; an attribute that does not exist yet is Unset.
None == 0 - 1
Unset == <<>>

\* cfg holds the parameters and intervention fields of the model object;
\* states, vaccinated, quarantined, history, totals, history_df and totals_df
\* are its other attributes; current_contacts, current_beta and day are the
\* locals of sim().  pc is the position of the caller, call and raised are
\* the most recent method call and the exception it ended with, calls is the
\* number of apply_* calls still to come and runs the number of sim() calls
\* made.  ever_quarantined is the set of agents whose quarantine flag was
\* set at some point of the current run.  db is the SQLite database and csv
\* the CSV file the model saves to.
VARIABLES cfg, states, vaccinated, quarantined, history, totals,
          history_df, totals_df, current_contacts, current_beta,
          pc, day, call, raised, calls, runs, ever_quarantined, db, csv

vars == <<cfg, states, vaccinated, quarantined, history, totals,
          history_df, totals_df, current_contacts, current_beta,
          pc, day, call, raised, calls, runs, ever_quarantined, db, csv>>

files == <<db, csv>>

\* ------------------------------------------------------------- input sets
Probabilities == 0..Resolution
Rates == 1..Resolution
ProbabilityInputs == (0 - 1)..(Resolution + 1)
TriggerInputs == {None} \cup 0..MaxTrigger
ContactInputs == 0..MaxN

\* ---------------------------------------------------------------- helpers
Agents(n) == 0..(n - 1)

\* Python truthiness of an optional integer argument: None and 0 are false.
Truthy(x) == x # None /\ x # 0

\* 0 <= p <= 1 for a probability given as a numerator over Resolution.
InUnitInterval(p) == 0 <= p /\ p <= Resolution

CountOf(arr, v) == Cardinality({i \in DOMAIN arr : arr[i] = v})

RECURSIVE Pow(_, _)
Pow(b, e) == IF e = 0 THEN 1 ELSE b * Pow(b, e - 1)

RECURSIVE SeqMax(_)
SeqMax(s) ==
    IF Len(s) = 1 THEN s[1]
    ELSE LET m == SeqMax(Tail(s)) IN IF s[1] >= m THEN s[1] ELSE m

\* The outcomes of rand() <= num / den.
Draw_inclusive(num, den) ==
    {b \in BOOLEAN : (b => num >= 0) /\ (~b => num < den)}

\* np.random.rand() < num/den, rand() uniform on [0, 1): the comparison can
\* come out true only if the probability is positive, false only if it is
\* below one.
Draw(num, den) == {b \in BOOLEAN : (b => num > 0) /\ (~b => num < den)}

\* np.random.shuffle of the block-initialised array: any arrangement with
\* init_exposed EXPOSED and init_infected INFECTIOUS agents (slices clamp
\* at N, the constructor's callers keep init_exposed + init_infected <= N).
Shuffled(n, init_exposed, init_infected) ==
    {a \in [Agents(n) -> {SUSCEPTIBLE, EXPOSED, INFECTIOUS}] :
        /\ CountOf(a, EXPOSED) = init_exposed
        /\ CountOf(a, INFECTIOUS) = init_infected}

Zeros(n) == [i \in Agents(n) |-> 0]

Call(method, args) == [method |-> method, args |-> args]

\* ------------------------------------------------------------ __init__
InitialCfg(n, init_infected, init_exposed, days, beta, sigma, gamma, act_rate) ==
    [N |-> n, init_infected |-> init_infected, init_exposed |-> init_exposed,
     days |-> days, beta |-> beta, sigma |-> sigma, gamma |-> gamma,
     act_rate |-> act_rate,
     quarantine_enabled |-> FALSE, quarantine_enabled_day |-> FALSE,
     quarantine_enabled_threshold |-> FALSE, quarantine_prob |-> 0,
     quarantine_start |-> None, quarantine_threshold |-> None,
     vaccination_enabled |-> FALSE, vaccine_start |-> None, vaccine_rate |-> 0,
     vaccine_enabled_day |-> FALSE, vaccine_enabled_threshold |-> FALSE,
     distancing_enabled |-> FALSE, distancing_start |-> None,
     distancing_threshold |-> None, reduced_contacts |-> None,
     distancing_enabled_day |-> FALSE, distancing_enabled_threshold |-> FALSE,
     masking_enabled |-> FALSE, mask_start |-> None, mask_threshold |-> None,
     mask_effectiveness |-> 0, mask_enabled_day |-> FALSE,
     mask_enabled_threshold |-> FALSE]

EmptyHistory ==
    [S |-> <<>>, E |-> <<>>, I |-> <<>>, R |-> <<>>, Q |-> <<>>, V |-> <<>>,
     infected |-> <<>>]

ConstructedTotals ==
    [S |-> 0, E |-> 0, I |-> <<>>, R |-> <<>>, Q |-> <<>>, V |-> <<>>,
     infected |-> <<>>]

\* A database without rows (its tables are created on the first save) and a
\* CSV file that does not exist yet.
EmptyDatabase ==
    [simulation_run |-> <<>>, simulation_results |-> <<>>, totals |-> <<>>]

\* The model after its construction, for populations up to max_n and runs
\* of up to max_days days, with max_calls apply_* calls still to come.
Constructed(max_n, max_days, max_calls) ==
    \E n \in 1..max_n, init_infected \in 0..max_n, init_exposed \in 0..max_n,
       days \in 0..max_days, beta \in Probabilities, sigma \in Rates,
       gamma \in Rates, act_rate \in 1..max_n :
        /\ init_infected + init_exposed <= n
        /\ act_rate <= n
        /\ cfg = InitialCfg(n, init_infected, init_exposed, days, beta, sigma,
                            gamma, act_rate)
        /\ states \in Shuffled(n, init_exposed, init_infected)
        /\ vaccinated = Zeros(n)
        /\ quarantined = Zeros(n)
        /\ history = EmptyHistory
        /\ totals = ConstructedTotals
        /\ history_df = Unset
        /\ totals_df = Unset
        /\ current_contacts = None
        /\ current_beta = None
        /\ pc = "constructed"
        /\ day = 0
        /\ call = Call("__init__", <<>>)
        /\ raised = "none"
        /\ calls = max_calls
        /\ runs = 0
        /\ ever_quarantined = {}
        /\ db = EmptyDatabase
        /\ csv = <<>>

Init == Constructed(MaxN, MaxDays, MaxCalls)

\* ------------------------------------------------------- apply_* methods
\* The value a call leaves behind: the fields of the model afterwards and the
\* exception it raised ("none" when it returned).
Returned(c) == [cfg |-> c, raised |-> "none"]
Raised(c) == [cfg |-> c, raised |-> "ValueError"]

quarantine_call(c, q_prob, quarantine_day, quarantine_threshold) ==
    IF ~InUnitInterval(q_prob) THEN Raised(c)
    ELSE IF Truthy(quarantine_day) /\ Truthy(quarantine_threshold) THEN Raised(c)
    ELSE IF Truthy(quarantine_day) THEN
        Returned([c EXCEPT !.quarantine_start = quarantine_day,
                           !.quarantine_prob = q_prob,
                           !.quarantine_enabled_day = TRUE,
                           !.quarantine_enabled = TRUE])
    ELSE IF Truthy(quarantine_threshold) THEN
        Returned([c EXCEPT !.quarantine_threshold = quarantine_threshold,
                           !.quarantine_prob = q_prob,
                           !.quarantine_enabled_threshold = TRUE,
                           !.quarantine_enabled = TRUE])
    ELSE Returned([c EXCEPT !.quarantine_enabled = TRUE])

vaccination_call(c, v_rate, vaccination_day, begin_vaccine_development) ==
    IF ~InUnitInterval(v_rate) THEN Raised(c)
    ELSE IF Truthy(vaccination_day) THEN
        IF Truthy(begin_vaccine_development) THEN
            Returned([c EXCEPT !.vaccine_start =
                                   vaccination_day + begin_vaccine_development,
                               !.vaccine_rate = v_rate,
                               !.vaccination_enabled = TRUE])
        ELSE
            Returned([c EXCEPT !.vaccine_start = vaccination_day,
                               !.vaccine_rate = v_rate,
                               !.vaccination_enabled = TRUE])
    ELSE IF Truthy(begin_vaccine_development) /\ ~Truthy(vaccination_day) THEN
        Raised(c)
    ELSE Returned(c)

masking_call(c, mask_effectiveness, mask_day, mask_threshold) ==
    IF ~InUnitInterval(mask_effectiveness) THEN Raised(c)
    ELSE IF Truthy(mask_day) /\ Truthy(mask_threshold) THEN Raised(c)
    ELSE IF Truthy(mask_day) THEN
        Returned([c EXCEPT !.mask_start = mask_day,
                           !.mask_effectiveness = mask_effectiveness,
                           !.mask_enabled_day = TRUE,
                           !.masking_enabled = TRUE])
    ELSE IF Truthy(mask_threshold) THEN
        Returned([c EXCEPT !.mask_threshold = mask_threshold,
                           !.mask_effectiveness = mask_effectiveness,
                           !.mask_enabled_threshold = TRUE,
                           !.masking_enabled = TRUE])
    ELSE Returned([c EXCEPT !.masking_enabled = TRUE])

distancing_call(c, reduced_contacts, distancing_day, distancing_threshold) ==
    IF ~(0 < reduced_contacts /\ reduced_contacts < c.act_rate) THEN Raised(c)
    ELSE IF Truthy(distancing_day) /\ Truthy(distancing_threshold) THEN Raised(c)
    ELSE IF Truthy(distancing_day) THEN
        Returned([c EXCEPT !.distancing_start = distancing_day,
                           !.reduced_contacts = reduced_contacts,
                           !.distancing_enabled_day = TRUE,
                           !.distancing_enabled = TRUE])
    ELSE IF Truthy(distancing_threshold) THEN
        Returned([c EXCEPT !.distancing_threshold = distancing_threshold,
                           !.reduced_contacts = reduced_contacts,
                           !.distancing_enabled_threshold = TRUE,
                           !.distancing_enabled = TRUE])
    ELSE Returned([c EXCEPT !.distancing_enabled = TRUE])

\* A call of an apply_* method on the constructed model, before its runs.
Configure(method, args, result) ==
    /\ pc = "constructed"
    /\ calls > 0
    /\ calls' = calls - 1
    /\ call' = Call(method, args)
    /\ cfg' = result.cfg
    /\ raised' = result.raised
    /\ UNCHANGED <<states, vaccinated, quarantined, history, totals,
                   history_df, totals_df, current_contacts, current_beta,
                   pc, day, runs, ever_quarantined, db, csv>>

apply_quarantine ==
    \E q_prob \in ProbabilityInputs, quarantine_day \in TriggerInputs,
       quarantine_threshold \in TriggerInputs :
        Configure("apply_quarantine", <<q_prob, quarantine_day, quarantine_threshold>>,
                  quarantine_call(cfg, q_prob,
                      quarantine_day, quarantine_threshold))

apply_vaccination ==
    \E v_rate \in ProbabilityInputs, vaccination_day \in TriggerInputs,
       begin_vaccine_development \in TriggerInputs :
        Configure("apply_vaccination", <<v_rate, vaccination_day, begin_vaccine_development>>,
                  vaccination_call(cfg, v_rate,
                      vaccination_day, begin_vaccine_development))

apply_masking ==
    \E mask_effectiveness \in ProbabilityInputs, mask_day \in TriggerInputs,
       mask_threshold \in TriggerInputs :
        Configure("apply_masking", <<mask_effectiveness, mask_day, mask_threshold>>,
                  masking_call(cfg, mask_effectiveness,
                      mask_day, mask_threshold))

apply_distancing ==
    \E reduced_contacts \in ContactInputs, distancing_day \in TriggerInputs,
       distancing_threshold \in TriggerInputs :
        Configure("apply_distancing", <<reduced_contacts, distancing_day, distancing_threshold>>,
                  distancing_call(cfg, reduced_contacts,
                      distancing_day, distancing_threshold))

\* ------------------------------------------------------------------ sim()
Infectious(st) == CountOf(st, INFECTIOUS)

\* The history and totals sim() starts every run with.
\* The day-0 susceptible count taken without the exposed agents.
InitialHistory_without_exposed(c) ==
    [S |-> <<c.N - c.init_infected>>,
     E |-> <<c.init_exposed>>,
     I |-> <<c.init_infected>>,
     R |-> <<0>>, Q |-> <<0>>, V |-> <<0>>,
     infected |-> <<c.init_exposed + c.init_infected>>]

InitialHistory(c) ==
    [S |-> <<c.N - c.init_exposed - c.init_infected>>,
     E |-> <<c.init_exposed>>,
     I |-> <<c.init_infected>>,
     R |-> <<0>>, Q |-> <<0>>, V |-> <<0>>,
     infected |-> <<c.init_exposed + c.init_infected>>]

InitialTotals(c) ==
    [S |-> c.N - c.init_exposed - c.init_infected,
     E |-> c.init_exposed,
     I |-> c.init_infected,
     R |-> 0, V |-> 0, Q |-> 0,
     max_infected |-> c.init_infected,
     max_exposed |-> c.init_exposed,
     max_quarantined |-> 0,
     max_vaccinated |-> 0,
     infected |-> 0]

\* sim() leaving the vaccination flags of the previous run in place.
sim_reinitialize_keeping_vaccinated ==
    /\ pc \in {"constructed", "returned"}
    /\ runs < MaxRuns
    /\ runs' = runs + 1
    /\ history' = InitialHistory(cfg)
    /\ totals' = InitialTotals(cfg)
    /\ states' \in Shuffled(cfg.N, cfg.init_exposed, cfg.init_infected)
    /\ quarantined' = Zeros(cfg.N)
    /\ day' = 0
    /\ pc' = "running"
    /\ call' = Call("sim", <<>>)
    /\ raised' = "none"
    /\ current_contacts' = None
    /\ current_beta' = None
    /\ ever_quarantined' = {}
    /\ UNCHANGED <<cfg, vaccinated, history_df, totals_df, calls, db, csv>>

sim_reinitialize ==
    /\ pc \in {"constructed", "returned"}
    /\ runs < MaxRuns
    /\ runs' = runs + 1
    /\ history' = InitialHistory(cfg)
    /\ totals' = InitialTotals(cfg)
    /\ states' \in Shuffled(cfg.N, cfg.init_exposed, cfg.init_infected)
    /\ vaccinated' = Zeros(cfg.N)
    /\ quarantined' = Zeros(cfg.N)
    /\ day' = 0
    /\ pc' = "running"
    /\ call' = Call("sim", <<>>)
    /\ raised' = "none"
    /\ current_contacts' = None
    /\ current_beta' = None
    /\ ever_quarantined' = {}
    /\ UNCHANGED <<cfg, history_df, totals_df, calls, db, csv>>

\* Distancing in force as soon as it is enabled, whatever its trigger.
DistancingActive_enabled_only(c, d, st) == c.distancing_enabled

\* The trigger conditions of the day loop, on the states array of the
\* beginning of day d.
DistancingActive(c, d, st) ==
    /\ c.distancing_enabled
    /\ \/ (c.distancing_enabled_day /\ d >= c.distancing_start)
       \/ (c.distancing_enabled_threshold
           /\ Infectious(st) >= c.distancing_threshold)

MaskingActive(c, d, st) ==
    /\ c.masking_enabled
    /\ \/ (c.mask_enabled_day /\ d >= c.mask_start)
       \/ (c.mask_enabled_threshold /\ Infectious(st) >= c.mask_threshold)

QuarantineActive(c, d, st) ==
    /\ c.quarantine_enabled
    /\ \/ (c.quarantine_enabled_day /\ d >= c.quarantine_start)
       \/ (c.quarantine_enabled_threshold
           /\ Infectious(st) >= c.quarantine_threshold)

VaccinationActive(c, d) == c.vaccination_enabled /\ d >= c.vaccine_start

Contacts(c, d, st) ==
    IF DistancingActive(c, d, st) THEN c.reduced_contacts ELSE c.act_rate

\* current_beta as a numerator over Resolution^2.
Beta(c, d, st) ==
    IF MaskingActive(c, d, st) THEN c.beta * (Resolution - c.mask_effectiveness)
    ELSE c.beta * Resolution

\* np.random.binomial(n, p): 0 successes need p < 1, n successes need p > 0.
Binomial(n, p) ==
    {k \in 0..n : (k > 0 => p > 0) /\ (k < n => p < Resolution)}

\* The agents the vaccination module marks on day d: a binomial number of
\* the not yet vaccinated ones, chosen without replacement.
VaccinationChoices(c, d, vacc) ==
    LET non_vaccinated_indices == {i \in DOMAIN vacc : vacc[i] # VACCINATED}
    IN  IF VaccinationActive(c, d) /\ Cardinality(non_vaccinated_indices) > 0
        THEN {ch \in SUBSET non_vaccinated_indices :
                Cardinality(ch) \in
                    Binomial(Cardinality(non_vaccinated_indices), c.vaccine_rate)}
        ELSE {{}}

\* np.random.choice(N, current_contacts, replace=False)
ContactSets(n, contacts) ==
    {s \in SUBSET Agents(n) : Cardinality(s) = contacts}

\* The exponent without the quarantined contacts taken off.
Exponent_all_infectious(st, q, contacts) ==
    Cardinality({j \in contacts : st[j] = INFECTIOUS})

\* The exponent of the exposure probability for one sample of contacts.
Exponent(st, q, contacts) ==
    Cardinality({j \in contacts : st[j] = INFECTIOUS})
    - Cardinality({j \in contacts : q[j] = QUARANTINED})

\* rand() < 1 - (1 - current_beta) ** k.  For k < 0 the power is at least 1
\* (infinite for current_beta = 1), so the comparison is false.
ExposureDraw(beta_now, k) ==
    IF k >= 0
    THEN Draw(Pow(Resolution * Resolution, k)
                - Pow(Resolution * Resolution - beta_now, k),
              Pow(Resolution * Resolution, k))
    ELSE {FALSE}

\* An exposure test that skips the check for an infectious contact and
\* draws against the transmission probability itself.
ExposureOf_unconditional(st, q, contacts, beta_now) ==
    Draw(beta_now, Resolution * Resolution)

\* The exposure test for one sample of contacts.
ExposureOf(st, q, contacts, beta_now) ==
    IF \E j \in contacts : st[j] = INFECTIOUS
    THEN ExposureDraw(beta_now, Exponent(st, q, contacts))
    ELSE {FALSE}

\* Whether a susceptible agent can come out exposed (TRUE) or not (FALSE).
Exposures(c, st, q, contacts_now, beta_now) ==
    UNION {ExposureOf(st, q, contacts, beta_now) :
            contacts \in ContactSets(c.N, contacts_now)}

\* An outcome in which an exposure makes the agent infectious at once.
Outcome_skipping_exposed(s, h) ==
    [state |-> IF s = EXPOSED THEN INFECTIOUS ELSE s, hit |-> h]

\* What the loop body can do to agent i: its next state and whether the
\* quarantine draw succeeded (the flag is then set and totals["Q"] counted).
Outcome(s, h) == [state |-> s, hit |-> h]

AgentOutcomes(c, d, st, q, i, contacts_now, beta_now) ==
    IF st[i] = SUSCEPTIBLE THEN
        {Outcome(IF e THEN EXPOSED ELSE SUSCEPTIBLE, FALSE) :
            e \in Exposures(c, st, q, contacts_now, beta_now)}
    ELSE IF st[i] = EXPOSED THEN
        {Outcome(IF b THEN INFECTIOUS ELSE EXPOSED, FALSE) :
            b \in Draw(c.sigma, Resolution)}
    ELSE IF st[i] = INFECTIOUS THEN
        {Outcome(RECOVERED, FALSE) : b \in Draw(c.gamma, Resolution) \cap {TRUE}}
        \cup
        (IF FALSE \in Draw(c.gamma, Resolution)
         THEN IF c.quarantine_enabled /\ QuarantineActive(c, d, st)
              THEN {Outcome(INFECTIOUS, h) :
                       h \in Draw(c.quarantine_prob, Resolution)}
              ELSE {Outcome(INFECTIOUS, FALSE)}
         ELSE {})
    ELSE {Outcome(st[i], FALSE)}

DayOutcomes(c, d, st, q) ==
    LET contacts_now == Contacts(c, d, st)
        beta_now == Beta(c, d, st)
        all == UNION {AgentOutcomes(c, d, st, q, i, contacts_now, beta_now) :
                        i \in DOMAIN st}
    IN  {o \in [DOMAIN st -> all] :
            \A i \in DOMAIN st :
                o[i] \in AgentOutcomes(c, d, st, q, i, contacts_now, beta_now)}

\* The loop over the agents, one agent at a time.  new_states and
\* new_quarantined start as copies of the arrays of the beginning of the day.
Buffers(st, q) == [states |-> st, quarantined |-> q]

\* The loop body reading the arrays it is writing.
AgentStep_reading_buffers(c, d, st, q, new, i) ==
    {[states |-> [new.states EXCEPT ![i] = o.state],
      quarantined |-> [new.quarantined EXCEPT ![i] =
                          IF st[i] = INFECTIOUS /\ o.state = RECOVERED THEN 0
                          ELSE IF o.hit THEN QUARANTINED
                          ELSE @]] :
        o \in AgentOutcomes(c, d, new.states, new.quarantined, i,
                            Contacts(c, d, st), Beta(c, d, st))}

\* The loop body for agent i: it reads self.states and self.quarantined and
\* writes entry i of the buffers.
AgentStep(c, d, st, q, new, i) ==
    {[states |-> [new.states EXCEPT ![i] = o.state],
      quarantined |-> [new.quarantined EXCEPT ![i] =
                          IF st[i] = INFECTIOUS /\ o.state = RECOVERED THEN 0
                          ELSE IF o.hit THEN QUARANTINED
                          ELSE @]] :
        o \in AgentOutcomes(c, d, st, q, i,
                            Contacts(c, d, st), Beta(c, d, st))}

\* The buffers the loop can end with when it takes the agents in the given
\* order, from any of the buffers in news.
RECURSIVE Loop(_, _, _, _, _, _)
Loop(c, d, st, q, news, order) ==
    IF order = <<>> THEN news
    ELSE Loop(c, d, st, q,
              UNION {AgentStep(c, d, st, q, new, Head(order)) : new \in news},
              Tail(order))

\* enumerate(self.states): the agents in index order.
IndexOrder(n) == [k \in 1..n |-> k - 1]

\* Every order in which the n agents could be taken.
Orders(n) ==
    {order \in [1..n -> Agents(n)] :
        \A k, l \in 1..n : order[k] = order[l] => k = l}

Moves(st, o, from, to) ==
    Cardinality({i \in DOMAIN st : st[i] = from /\ o[i].state = to})

\* The flags when a recovery leaves the quarantine flag as it is.
NewQuarantined_kept_on_recovery(st, q, o) ==
    [i \in DOMAIN q |-> IF o[i].hit THEN QUARANTINED ELSE q[i]]

\* new_quarantined: cleared where an infectious agent recovers, set where the
\* quarantine draw succeeds, copied otherwise.
NewQuarantined(st, q, o) ==
    [i \in DOMAIN q |->
        IF st[i] = INFECTIOUS /\ o[i].state = RECOVERED THEN 0
        ELSE IF o[i].hit THEN QUARANTINED
        ELSE q[i]]

\* The flags rebuilt from the agents chosen on this day alone.
NewVaccinated_only_chosen(vacc, chosen) ==
    [i \in DOMAIN vacc |-> IF i \in chosen THEN VACCINATED ELSE 0]

\* new_vaccinated: the copy of the flags with the chosen agents marked.
NewVaccinated(vacc, chosen) ==
    [i \in DOMAIN vacc |-> IF i \in chosen THEN VACCINATED ELSE vacc[i]]

\* The totals with a recovery counted for every agent that is Recovered
\* after the step.
UpdatedTotals_recounting_recovered(t, st, o, chosen) ==
    [t EXCEPT !.V = @ + Cardinality(chosen),
              !.E = @ + Moves(st, o, SUSCEPTIBLE, EXPOSED),
              !.infected = @ + Moves(st, o, SUSCEPTIBLE, EXPOSED),
              !.I = @ + Moves(st, o, EXPOSED, INFECTIOUS),
              !.R = @ + Cardinality({i \in DOMAIN st : o[i].state = RECOVERED}),
              !.Q = @ + Cardinality({i \in DOMAIN st : o[i].hit})]

\* self.totals after the increments of one day.
UpdatedTotals(t, st, o, chosen) ==
    [t EXCEPT !.V = @ + Cardinality(chosen),
              !.E = @ + Moves(st, o, SUSCEPTIBLE, EXPOSED),
              !.infected = @ + Moves(st, o, SUSCEPTIBLE, EXPOSED),
              !.I = @ + Moves(st, o, EXPOSED, INFECTIOUS),
              !.R = @ + Moves(st, o, INFECTIOUS, RECOVERED),
              !.Q = @ + Cardinality({i \in DOMAIN st : o[i].hit})]

\* The record with the Q column counting the infectious agents.
Recorded_quarantined_as_infectious(h, st, vacc, q) ==
    [S |-> Append(h.S, CountOf(st, SUSCEPTIBLE)),
     E |-> Append(h.E, CountOf(st, EXPOSED)),
     I |-> Append(h.I, CountOf(st, INFECTIOUS)),
     R |-> Append(h.R, CountOf(st, RECOVERED)),
     infected |-> Append(h.infected,
                         CountOf(st, INFECTIOUS) + CountOf(st, EXPOSED)),
     V |-> Append(h.V, CountOf(vacc, VACCINATED)),
     Q |-> Append(h.Q, CountOf(st, INFECTIOUS))]

Recorded(h, st, vacc, q) ==
    [S |-> Append(h.S, CountOf(st, SUSCEPTIBLE)),
     E |-> Append(h.E, CountOf(st, EXPOSED)),
     I |-> Append(h.I, CountOf(st, INFECTIOUS)),
     R |-> Append(h.R, CountOf(st, RECOVERED)),
     infected |-> Append(h.infected,
                         CountOf(st, INFECTIOUS) + CountOf(st, EXPOSED)),
     V |-> Append(h.V, CountOf(vacc, VACCINATED)),
     Q |-> Append(h.Q, CountOf(q, QUARANTINED))]

\* The loop running one day too many, as range(self.days + 1) would.
LoopContinues_one_more(c, d) == d <= c.days

\* for day in range(self.days)
LoopContinues(c, d) == d < c.days

sim_day ==
    /\ pc = "running"
    /\ LoopContinues(cfg, day)
    /\ \E chosen \in VaccinationChoices(cfg, day, vaccinated),
          o \in DayOutcomes(cfg, day, states, quarantined) :
        /\ current_contacts' = Contacts(cfg, day, states)
        /\ current_beta' = Beta(cfg, day, states)
        /\ states' = [i \in DOMAIN states |-> o[i].state]
        /\ vaccinated' = NewVaccinated(vaccinated, chosen)
        /\ quarantined' = NewQuarantined(states, quarantined, o)
        /\ totals' = UpdatedTotals(totals, states, o, chosen)
        /\ history' = Recorded(history, states', vaccinated', quarantined')
        /\ ever_quarantined' =
               ever_quarantined \cup {i \in DOMAIN states : o[i].hit}
    /\ day' = day + 1
    /\ UNCHANGED <<cfg, history_df, totals_df, pc, call, raised, calls, runs,
                   db, csv>>

\* The data frames sim() returns.
HistoryFrame(c, h) ==
    [Day |-> [k \in 1..(c.days + 1) |-> k - 1],
     S |-> h.S, E |-> h.E, I |-> h.I, R |-> h.R, Q |-> h.Q, V |-> h.V,
     infected |-> h.infected]

\* The peak of the infected taken over the infectious alone.
FinalTotals_infectious_peak(t, df) ==
    [t EXCEPT !.max_infected = SeqMax(df.I),
              !.max_exposed = SeqMax(df.E),
              !.max_quarantined = SeqMax(df.Q),
              !.max_vaccinated = SeqMax(df.V)]

FinalTotals(t, df) ==
    [t EXCEPT !.max_infected = SeqMax(df.infected),
              !.max_exposed = SeqMax(df.E),
              !.max_quarantined = SeqMax(df.Q),
              !.max_vaccinated = SeqMax(df.V)]

sim_return ==
    /\ pc = "running"
    /\ ~LoopContinues(cfg, day)
    /\ history_df' = HistoryFrame(cfg, history)
    /\ totals' = FinalTotals(totals, history_df')
    /\ totals_df' = totals'
    /\ pc' = "returned"
    /\ current_contacts' = None
    /\ current_beta' = None
    /\ UNCHANGED <<cfg, states, vaccinated, quarantined, history, day, call,
                   raised, calls, runs, ever_quarantined, db, csv>>

\* ------------------------------------------------ save_to_db, save_to_csv
\* DataFrame.empty: a frame without rows.
Empty(df) == \A col \in DOMAIN df : Len(df[col]) = 0

\* The tuple save_to_db hands to insert_simulation_run.
sim_run_data(c) ==
    <<c.N, c.init_infected, c.init_exposed, c.days, c.beta, c.sigma, c.gamma,
      c.act_rate, c.quarantine_enabled, c.quarantine_enabled_day,
      c.quarantine_enabled_threshold, c.quarantine_prob, c.quarantine_start,
      c.quarantine_threshold, c.vaccination_enabled, c.vaccine_start,
      c.vaccine_rate, c.vaccine_enabled_day, c.vaccine_enabled_threshold,
      c.distancing_enabled, c.distancing_start, c.distancing_threshold,
      c.reduced_contacts, c.distancing_enabled_day, c.masking_enabled,
      c.mask_enabled_day, c.mask_enabled_threshold, c.mask_start,
      c.mask_threshold, c.mask_effectiveness>>

\* DatabaseManager.insert_simulation_run: the row gets the next id.
insert_simulation_run(d, data) ==
    [d EXCEPT !.simulation_run =
        Append(@, [id |-> Len(@) + 1, data |-> data])]

\* DatabaseManager.insert_simulation_results: one row per history row.
insert_simulation_results(d, sim_run_id, df) ==
    [d EXCEPT !.simulation_results =
        @ \o [k \in 1..Len(df.Day) |->
                [sim_run_id |-> sim_run_id, day |-> df.Day[k],
                 susceptible |-> df.S[k], exposed |-> df.E[k],
                 infectious |-> df.I[k], recovered |-> df.R[k],
                 quarantined |-> df.Q[k], vaccinated |-> df.V[k]]]]

\* DatabaseManager.insert_totals: the one row of the totals frame.
insert_totals(d, sim_run_id, t) ==
    [d EXCEPT !.totals =
        Append(@, [sim_run_id |-> sim_run_id, total_infected |-> t.I,
                   total_exposed |-> t.E, total_recovered |-> t.R,
                   total_quarantined |-> t.Q, total_vaccinated |-> t.V,
                   total_susceptible |-> t.S, max_infected |-> t.max_infected,
                   max_exposed |-> t.max_exposed,
                   max_quarantined |-> t.max_quarantined,
                   max_vaccinated |-> t.max_vaccinated])]

\* The database after a save of the frames of the model.
Saved(d, c, df, t) ==
    LET with_run == insert_simulation_run(d, sim_run_data(c))
        sim_run_id == Len(with_run.simulation_run)
    IN  insert_totals(insert_simulation_results(with_run, sim_run_id, df),
                      sim_run_id, t)

\* The row save_to_csv adds: the totals divided by 1000 and four fields of
\* the configuration.
Thousandth(x) == [num |-> x, den |-> 1000]

CsvRow(c, t) ==
    [totals |-> [key \in DOMAIN t |-> Thousandth(t[key])],
     quarantine_day |-> c.quarantine_enabled_day,
     quarantine_prob |-> c.quarantine_prob,
     mask_start |-> c.mask_start,
     mask_effectiveness |-> c.mask_effectiveness]

\* What reading self.history_df and self.totals_df at the top of a save
\* method ends in: the attributes exist only once sim() has returned.
SaveCheck(df, t) ==
    IF df = Unset \/ t = Unset THEN "AttributeError"
    ELSE IF Empty(df) \/ Empty([row |-> <<t>>]) THEN "ValueError"
    ELSE "none"

\* A call of a save method between runs, while fewer than MaxSaves saves
\* have been written.
CanSave ==
    /\ pc \in {"constructed", "returned"}
    /\ Len(db.simulation_run) + Len(csv) < MaxSaves

save_to_db ==
    /\ CanSave
    /\ call' = Call("save_to_db", <<>>)
    /\ raised' = SaveCheck(history_df, totals_df)
    /\ db' = IF raised' = "none" THEN Saved(db, cfg, history_df, totals_df)
             ELSE db
    /\ UNCHANGED <<cfg, states, vaccinated, quarantined, history, totals,
                   history_df, totals_df, current_contacts, current_beta,
                   pc, day, calls, runs, ever_quarantined, csv>>

save_to_csv ==
    /\ CanSave
    /\ call' = Call("save_to_csv", <<>>)
    /\ raised' = SaveCheck(history_df, totals_df)
    /\ csv' = IF raised' = "none" THEN Append(csv, CsvRow(cfg, totals_df))
              ELSE csv
    /\ UNCHANGED <<cfg, states, vaccinated, quarantined, history, totals,
                   history_df, totals_df, current_contacts, current_beta,
                   pc, day, calls, runs, ever_quarantined, db>>

Next ==
    \/ apply_quarantine
    \/ apply_vaccination
    \/ apply_masking
    \/ apply_distancing
    \/ sim_reinitialize
    \/ sim_day
    \/ sim_return

Spec == Init /\ [][Next]_vars

\* ------------------------------------------------- the Scenario D driver
\* A constructed model, then apply_vaccination(1.0, 0), then sim().
scenario_d_vaccination ==
    /\ call.method = "__init__"
    /\ Configure("apply_vaccination", <<Resolution, 0, None>>,
                 vaccination_call(cfg, Resolution, 0, None))

scenario_d_sim ==
    /\ call.method \in {"apply_vaccination", "sim"}
    /\ sim_reinitialize

NextScenarioD ==
    \/ scenario_d_vaccination
    \/ scenario_d_sim
    \/ sim_day
    \/ sim_return

SpecScenarioD == Init /\ [][NextScenarioD]_vars

\* ------------------------------------------------ the no-trigger driver
\* A constructed model on which apply_quarantine, apply_masking and
\* apply_distancing are called with the magnitude alone, each at most once
\* and in any order, and which is then run.
InitNoTrigger == Constructed(MaxN, MaxDays, 3)

no_trigger_quarantine ==
    /\ ~cfg.quarantine_enabled
    /\ \E q_prob \in Probabilities :
        Configure("apply_quarantine", <<q_prob, None, None>>,
                  quarantine_call(cfg, q_prob, None, None))

no_trigger_masking ==
    /\ ~cfg.masking_enabled
    /\ \E mask_effectiveness \in Probabilities :
        Configure("apply_masking", <<mask_effectiveness, None, None>>,
                  masking_call(cfg, mask_effectiveness, None, None))

no_trigger_distancing ==
    /\ ~cfg.distancing_enabled
    /\ \E reduced_contacts \in 1..(cfg.act_rate - 1) :
        Configure("apply_distancing", <<reduced_contacts, None, None>>,
                  distancing_call(cfg, reduced_contacts, None, None))

no_trigger_sim ==
    /\ call.method # "__init__"
    /\ sim_reinitialize

NextNoTrigger ==
    \/ no_trigger_quarantine
    \/ no_trigger_masking
    \/ no_trigger_distancing
    \/ no_trigger_sim
    \/ sim_day
    \/ sim_return

SpecNoTrigger == InitNoTrigger /\ [][NextNoTrigger]_vars

\* ----------------------------------------------- the vaccination driver
\* A constructed model with runs of up to MaxDays + 1 days, one call of
\* apply_vaccination with any arguments, then one sim().
InitVaccination == Constructed(MaxN, MaxDays + 1, 1)

vaccination_configure ==
    /\ call.method = "__init__"
    /\ apply_vaccination

vaccination_sim ==
    /\ call.method = "apply_vaccination"
    /\ sim_reinitialize

NextVaccination ==
    \/ vaccination_configure
    \/ vaccination_sim
    \/ sim_day
    \/ sim_return

SpecVaccination == InitVaccination /\ [][NextVaccination]_vars

\* ------------------------------------------------- the Scenario C driver
\* A constructed model of up to MaxN + 1 agents, then
\* apply_quarantine(1.0, quarantine_threshold=T) with T >= 1, then one sim().
InitScenarioC == Constructed(MaxN + 1, MaxDays, 1)

scenario_c_quarantine ==
    /\ call.method = "__init__"
    /\ \E quarantine_threshold \in 1..(MaxTrigger + 1) :
        Configure("apply_quarantine", <<Resolution, None, quarantine_threshold>>,
                  quarantine_call(cfg, Resolution, None, quarantine_threshold))

scenario_c_sim ==
    /\ call.method = "apply_quarantine"
    /\ sim_reinitialize

NextScenarioC ==
    \/ scenario_c_quarantine
    \/ scenario_c_sim
    \/ sim_day
    \/ sim_return

SpecScenarioC == InitScenarioC /\ [][NextScenarioC]_vars

\* ------------------------------------------- the call-sequence driver
\* A constructed model on which apply_quarantine, apply_masking and
\* apply_distancing are called MaxCalls + 1 times in all, with any arguments
\* (the model is not run, so days = 0 stands for every length of run).
InitCallSequence == Constructed(MaxN, 0, MaxCalls + 1)

NextCallSequence ==
    \/ apply_quarantine
    \/ apply_masking
    \/ apply_distancing

SpecCallSequence == InitCallSequence /\ [][NextCallSequence]_vars

\* ------------------------------------------------------ the save driver
\* A constructed model that is run and saved, in any order.
NextSave ==
    \/ sim_reinitialize
    \/ sim_day
    \/ sim_return
    \/ save_to_db
    \/ save_to_csv

SpecSave == Init /\ [][NextSave]_vars

\* ------------------------------------------------------------ properties
Last(s) == s[Len(s)]

IsMaxOf(m, s) == (\E k \in 1..Len(s) : s[k] = m) /\ (\A k \in 1..Len(s) : s[k] <= m)

InRange(x, n) == 0 <= x /\ x <= n

\* C1: on every recorded day the four compartment counts add up to N.
Conservation ==
    \A d \in 1..Len(history.S) :
        history.S[d] + history.E[d] + history.I[d] + history.R[d] = cfg.N

ConservationWitness ==
    /\ pc = "returned"
    /\ Len(history.S) = MaxDays + 1
    /\ Last(history.S) < history.S[1]
    /\ Last(history.R) > 0

\* C2: an intervention whose trigger is met at the beginning of one day-step
\* of a run is also active in the next day-step of that run.
ActivationPermanent ==
    [][(pc = "running" /\ pc' = "running" /\ day' = day + 1
            /\ LoopContinues(cfg, day'))
        => /\ QuarantineActive(cfg, day, states)
                => QuarantineActive(cfg, day', states')
           /\ MaskingActive(cfg, day, states)
                => MaskingActive(cfg, day', states')
           /\ DistancingActive(cfg, day, states)
                => DistancingActive(cfg, day', states')]_vars

\* The trigger fields of the three interventions that take a day or a
\* threshold.
TriggerFields(c) ==
    <<c.quarantine_enabled_day, c.quarantine_enabled_threshold,
      c.quarantine_start, c.quarantine_threshold,
      c.mask_enabled_day, c.mask_enabled_threshold,
      c.mask_start, c.mask_threshold,
      c.distancing_enabled_day, c.distancing_enabled_threshold,
      c.distancing_start, c.distancing_threshold>>

\* C3: a call of apply_quarantine, apply_masking or apply_distancing that is
\* given both a day and a threshold raises and sets no trigger.
TriggerExclusivity ==
    [][(/\ calls' # calls
        /\ call'.method \in {"apply_quarantine", "apply_masking",
                              "apply_distancing"}
        /\ call'.args[2] # None
        /\ call'.args[3] # None)
        => (raised' = "ValueError"
            /\ TriggerFields(cfg') = TriggerFields(cfg))]_vars

\* C4: in a run of the Scenario D driver, every recorded day from day 1 on has
\* the whole population vaccinated.
ScenarioDVaccinatesAll ==
    pc \in {"running", "returned"}
        => \A d \in 2..Len(history.V) : history.V[d] = cfg.N

\* C5: sim() returns after exactly D day-steps with D+1 records, Day running
\* 0..D, the first record being the initial counts.
HistoryShape ==
    /\ pc = "running" => (day <= cfg.days /\ Len(history.S) = day + 1)
    /\ pc = "returned" =>
        /\ day = cfg.days
        /\ \A col \in {"Day", "S", "E", "I", "R", "Q", "V", "infected"} :
                Len(history_df[col]) = cfg.days + 1
        /\ \A k \in 1..(cfg.days + 1) : history_df.Day[k] = k - 1
        /\ history_df.S[1] = cfg.N - cfg.init_exposed - cfg.init_infected
        /\ history_df.E[1] = cfg.init_exposed
        /\ history_df.I[1] = cfg.init_infected
        /\ history_df.R[1] = 0
        /\ history_df.Q[1] = 0
        /\ history_df.V[1] = 0
        /\ history_df.infected[1] = cfg.init_exposed + cfg.init_infected

HistoryShapeWitness ==
    /\ pc = "returned"
    /\ cfg.days = MaxDays
    /\ Last(history_df.S) # history_df.S[1]

\* C6: every call of sim() starts from cleared flags, freshly initialised
\* health states, the day-0 history and the initial totals, keeps the
\* configuration, and returns D+1 records again.
RerunResets ==
    /\ [][runs' # runs =>
            /\ cfg' = cfg
            /\ vaccinated' = [i \in 0..(cfg.N - 1) |-> 0]
            /\ quarantined' = [i \in 0..(cfg.N - 1) |-> 0]
            /\ DOMAIN states' = 0..(cfg.N - 1)
            /\ CountOf(states', EXPOSED) = cfg.init_exposed
            /\ CountOf(states', INFECTIOUS) = cfg.init_infected
            /\ CountOf(states', RECOVERED) = 0
            /\ history'.S = <<cfg.N - cfg.init_exposed - cfg.init_infected>>
            /\ history'.E = <<cfg.init_exposed>>
            /\ history'.I = <<cfg.init_infected>>
            /\ history'.R = <<0>>
            /\ history'.Q = <<0>>
            /\ history'.V = <<0>>
            /\ history'.infected = <<cfg.init_exposed + cfg.init_infected>>
            /\ totals'.S = cfg.N - cfg.init_exposed - cfg.init_infected
            /\ totals'.E = cfg.init_exposed
            /\ totals'.I = cfg.init_infected
            /\ totals'.R = 0
            /\ totals'.Q = 0
            /\ totals'.V = 0
            /\ totals'.infected = 0]_vars
    /\ [](pc = "returned" => Len(history_df.S) = cfg.days + 1)

RerunResetsWitness ==
    /\ runs = 2
    /\ pc = "running"
    /\ day = 0
    /\ totals_df.R > 0
    /\ totals_df.V > 0

\* C7: the S entry of the returned totals is the susceptible count of the
\* last recorded day.
TotalsFinalSusceptible ==
    pc = "returned" => totals_df.S = history_df.S[cfg.days + 1]

\* C8: the Q entry of the returned totals is the number of distinct agents
\* whose quarantine flag was set during the run.
TotalsQuarantinedAgents ==
    pc = "returned" => totals_df.Q = Cardinality(ever_quarantined)

\* C9: every count of every history record and every entry of the totals of
\* a run lies in 0..N.
CountsWithinN ==
    /\ \A col \in {"S", "E", "I", "R", "Q", "V", "infected"} :
            \A d \in 1..Len(history[col]) : InRange(history[col][d], cfg.N)
    /\ pc \in {"running", "returned"} =>
            \A key \in {"S", "E", "I", "R", "Q", "V", "max_infected",
                         "max_exposed", "max_quarantined", "max_vaccinated"} :
                InRange(totals[key], cfg.N)

\* C10: the four max_* entries of the returned totals are the maxima of the
\* infected (E+I), E, Q and V series over the recorded days 0..D.
PeaksAreMaxima ==
    pc = "returned" =>
        /\ \A k \in 1..(cfg.days + 1) :
                history_df.infected[k] = history_df.E[k] + history_df.I[k]
        /\ IsMaxOf(totals_df.max_infected, history_df.infected)
        /\ IsMaxOf(totals_df.max_exposed, history_df.E)
        /\ IsMaxOf(totals_df.max_quarantined, history_df.Q)
        /\ IsMaxOf(totals_df.max_vaccinated, history_df.V)

PeaksAreMaximaWitness ==
    /\ pc = "returned"
    /\ totals_df.max_exposed > history_df.E[1]
    /\ totals_df.max_infected > history_df.I[1]
    /\ totals_df.max_infected > SeqMax(history_df.I)
\* C14: a save method called on a model that has never been run ends with
\* the ValueError 'No data to save. Please run the simulation first.' and
\* leaves the database and the CSV file as they were.
SaveBeforeRunRejected ==
    [][(call'.method \in {"save_to_db", "save_to_csv"} /\ call' # call
            /\ runs = 0)
        => (raised' = "ValueError" /\ db' = db /\ csv' = csv)]_vars
\* C12: while no apply_* method has been called, every history record of
\* every run has Q = 0 and V = 0, and the cumulative totals Q and V are 0.
NoInterventionBaseline ==
    (calls = MaxCalls /\ pc \in {"running", "returned"})
        => /\ \A k \in DOMAIN history.Q : history.Q[k] = 0
           /\ \A k \in DOMAIN history.V : history.V[k] = 0
           /\ totals.Q = 0
           /\ totals.V = 0
           /\ pc = "returned"
                => /\ \A k \in DOMAIN history_df.Q : history_df.Q[k] = 0
                   /\ \A k \in DOMAIN history_df.V : history_df.V[k] = 0
                   /\ totals_df.Q = 0
                   /\ totals_df.V = 0

\* A second run of a model without interventions has returned after
\* MaxDays days on which somebody was infectious.
NoInterventionBaselineWitness ==
    /\ calls = MaxCalls
    /\ pc = "returned"
    /\ runs = MaxRuns
    /\ cfg.days = MaxDays
    /\ \A k \in DOMAIN history_df.I : history_df.I[k] >= 1

\* C17: with beta = 0 and init_exposed = 0 the S count is N - init_infected
\* on every recorded day and the I count never increases from one recorded
\* day to the next.
ScenarioBNoTransmission ==
    (cfg.beta = 0 /\ cfg.init_exposed = 0 /\ pc \in {"running", "returned"})
        => \A k \in DOMAIN history.S :
            /\ history.S[k] = cfg.N - cfg.init_infected
            /\ k > 1 => history.I[k] <= history.I[k - 1]

\* A run with beta = 0 in which a susceptible agent lived MaxDays days
\* beside an infectious one, who then recovered.
ScenarioBNoTransmissionWitness ==
    /\ cfg.beta = 0
    /\ cfg.init_exposed = 0
    /\ cfg.init_infected >= 1
    /\ cfg.init_infected < cfg.N
    /\ cfg.days = MaxDays
    /\ pc = "returned"
    /\ history.I[MaxDays] >= 1
    /\ Last(history.I) < history.I[1]

\* C19: at every day boundary a quarantined agent is Infectious, so
\* Q[d] <= I[d] on every recorded day; a day-step sets the flag only on an
\* agent that is Infectious before and after the step, and the step in
\* which an agent becomes Recovered leaves its flag cleared.
QuarantinedAreInfectious ==
    /\ [](\A i \in DOMAIN states :
            quarantined[i] = QUARANTINED => states[i] = INFECTIOUS)
    /\ [](\A k \in DOMAIN history.Q : history.Q[k] <= history.I[k])
    /\ [][\A i \in DOMAIN states :
            /\ (quarantined[i] # QUARANTINED /\ quarantined'[i] = QUARANTINED)
                => (states[i] = INFECTIOUS /\ states'[i] = INFECTIOUS)
            /\ (states[i] # RECOVERED /\ states'[i] = RECOVERED)
                => quarantined'[i] = 0]_vars

\* An agent that was quarantined has recovered.
QuarantinedAreInfectiousWitness ==
    /\ pc = "running"
    /\ \E i \in ever_quarantined : states[i] = RECOVERED
    /\ \E k \in DOMAIN history.Q : history.Q[k] >= 1

\* C20: for every sample of contacts a day-step can draw, the exponent of
\* 1 - (1 - p)^k is the number of sampled agents that are Infectious and
\* not quarantined, hence never negative; when that number is 0 the agent
\* stays Susceptible.
ExponentCountsFreeInfectious ==
    (pc = "running" /\ LoopContinues(cfg, day))
        => \A contacts \in ContactSets(cfg.N, Contacts(cfg, day, states)) :
            LET free == {j \in contacts : /\ states[j] = INFECTIOUS
                                          /\ quarantined[j] # QUARANTINED}
            IN  /\ Exponent(states, quarantined, contacts) = Cardinality(free)
                /\ Exponent(states, quarantined, contacts) >= 0
                /\ free = {}
                    => ExposureOf(states, quarantined, contacts,
                                  Beta(cfg, day, states)) = {FALSE}

\* A day-step is about to run with a susceptible agent whose only possible
\* infectious contact is quarantined.
ExponentCountsFreeInfectiousWitness ==
    /\ pc = "running"
    /\ LoopContinues(cfg, day)
    /\ cfg.beta > 0
    /\ \E i \in DOMAIN states : states[i] = SUSCEPTIBLE
    /\ \E j \in DOMAIN states : quarantined[j] = QUARANTINED
\* The calls the validation is meant to reject: a magnitude out of range,
\* or a development delay supplied without a vaccination day.
InvalidMagnitude(c, cl) ==
    \/ /\ cl.method \in {"apply_quarantine", "apply_vaccination",
                          "apply_masking"}
       /\ ~InUnitInterval(cl.args[1])
    \/ /\ cl.method = "apply_distancing"
       /\ ~(0 < cl.args[1] /\ cl.args[1] < c.act_rate)
    \/ /\ cl.method = "apply_vaccination"
       /\ cl.args[2] = None
       /\ cl.args[3] # None

\* C15: an apply_* call with an invalid magnitude, and apply_vaccination
\* with a development delay but no vaccination day, raises and leaves the
\* configuration as it was; no step of sim() raises.
InvalidMagnitudesRejected ==
    [][/\ (calls' # calls /\ InvalidMagnitude(cfg, call'))
            => (raised' = "ValueError" /\ cfg' = cfg)
       /\ call'.method = "sim" => raised' = "none"]_vars
\* C16: after apply_quarantine, apply_masking or apply_distancing called
\* with the magnitude alone, every day-step of every run leaves all agents
\* unquarantined, uses beta as the transmission probability and act_rate as
\* the number of contacts.
NoTriggerDisabled ==
    [][(pc = "running" /\ day' = day + 1)
        => /\ \A i \in DOMAIN quarantined' : quarantined'[i] = 0
           /\ ever_quarantined' = {}
           /\ totals'.Q = 0
           /\ current_beta' = cfg.beta * Resolution
           /\ current_contacts' = cfg.act_rate]_vars

\* The last day-step of a run has been taken on a model with all three
\* interventions enabled without a trigger, with an infectious agent on
\* every recorded day.
NoTriggerDisabledWitness ==
    /\ cfg.quarantine_enabled
    /\ cfg.masking_enabled
    /\ cfg.distancing_enabled
    /\ TriggerFields(cfg) = TriggerFields(InitialCfg(0, 0, 0, 0, 0, 0, 0, 0))
    /\ pc = "running"
    /\ day = MaxDays
    /\ \A k \in DOMAIN history.I : history.I[k] >= 1
\* A day-step of sim(): the loop body has run once.
DayStep == pc = "running" /\ day' = day + 1

\* C11: from one recorded day to the next the R count and the V count do
\* not decrease, and an agent that is Recovered, or vaccinated, on one day
\* is so on the next.
Monotonicity ==
    /\ [][DayStep
            => /\ \A i \in DOMAIN states :
                    /\ states[i] = RECOVERED => states'[i] = RECOVERED
                    /\ vaccinated[i] = VACCINATED
                        => vaccinated'[i] = VACCINATED
               /\ Last(history'.R) >= Last(history.R)
               /\ Last(history'.V) >= Last(history.V)]_vars
    /\ [](\A k \in DOMAIN history.R :
            k > 1 => /\ history.R[k] >= history.R[k - 1]
                     /\ history.V[k] >= history.V[k - 1])

\* Two agents were vaccinated on two different days and one agent has
\* recovered before the last day.
MonotonicityWitness ==
    /\ pc = "returned"
    /\ Len(history.V) = MaxDays + 2
    /\ history.V[MaxDays + 1] = 1
    /\ history.V[MaxDays + 2] = 2
    /\ history.R[MaxDays + 1] >= 1

\* The development delay of a call, 0 when none is given.
Delay(w) == IF w = None THEN 0 ELSE w

\* C18: apply_vaccination with rate r, day v and delay w sets the start day
\* to v + w (v without a delay); V[d] = 0 on every recorded day d up to the
\* start day; a day-step below the start day vaccinates nobody and a later
\* one counts only agents that were unvaccinated before it.
VaccinationStart ==
    /\ [][(/\ calls' # calls
           /\ call'.method = "apply_vaccination"
           /\ InUnitInterval(call'.args[1])
           /\ call'.args[2] # None)
            => /\ raised' = "none"
               /\ cfg'.vaccination_enabled
               /\ cfg'.vaccine_start
                    = call'.args[2] + Delay(call'.args[3])]_vars
    /\ [](cfg.vaccination_enabled
            => \A k \in DOMAIN history.V :
                k - 1 <= cfg.vaccine_start => history.V[k] = 0)
    /\ [][(DayStep /\ cfg.vaccination_enabled)
            => /\ day < cfg.vaccine_start => vaccinated' = vaccinated
               /\ totals'.V - totals.V
                    = Cardinality({i \in DOMAIN vaccinated :
                                    /\ vaccinated[i] # VACCINATED
                                    /\ vaccinated'[i] = VACCINATED})]_vars
\* C13: with a threshold-trigger T and quarantine probability 1, once the
\* I count has been >= T on some day of the run, every day-step from that
\* day on sets the quarantine flag of every agent that is Infectious before
\* and after the step, and the Q count it records is the number of these
\* agents.
ScenarioCQuarantinesAll ==
    [][(/\ DayStep
        /\ cfg.quarantine_enabled_threshold
        /\ cfg.quarantine_prob = Resolution
        /\ \E k \in DOMAIN history.I :
                history.I[k] >= cfg.quarantine_threshold)
        => LET staying == {i \in DOMAIN states :
                            /\ states[i] = INFECTIOUS
                            /\ states'[i] = INFECTIOUS}
           IN  /\ \A i \in staying : quarantined'[i] = QUARANTINED
               /\ Last(history'.Q) = Cardinality(staying)]_vars
\* C21: in every day-step each agent keeps its state or advances by one
\* stage along Susceptible -> Exposed -> Infectious -> Recovered; a
\* Recovered agent stays Recovered and the S count never increases.
OneDirectional ==
    /\ [][DayStep
            => /\ \A i \in DOMAIN states :
                    \/ states'[i] = states[i]
                    \/ states[i] = SUSCEPTIBLE /\ states'[i] = EXPOSED
                    \/ states[i] = EXPOSED /\ states'[i] = INFECTIOUS
                    \/ states[i] = INFECTIOUS /\ states'[i] = RECOVERED
               /\ \A i \in DOMAIN states :
                    states[i] = RECOVERED => states'[i] = RECOVERED
               /\ Last(history'.S) <= Last(history.S)]_vars
    /\ [](\A k \in DOMAIN history.S :
            k > 1 => history.S[k] <= history.S[k - 1])

\* One agent went from Exposed to Infectious to Recovered, one stage a day,
\* while a susceptible agent was exposed.
OneDirectionalWitness ==
    /\ pc = "returned"
    /\ cfg.days = MaxDays
    /\ cfg.N = MaxN
    /\ history.E[1] >= 1
    /\ history.I[2] >= 1
    /\ history.R[3] >= 1
    /\ history.S[1] > Last(history.S)

\* C24: after every day-step the cumulative totals agree with the counts of
\* the day just recorded: totals R = R[d], totals V = V[d],
\* totals I = I[d] + R[d] and totals E = N - init_infected - S[d].
TotalsAgreeWithCounts ==
    pc \in {"running", "returned"}
        => /\ totals.R = Last(history.R)
           /\ totals.V = Last(history.V)
           /\ totals.I = Last(history.I) + Last(history.R)
           /\ totals.E = cfg.N - cfg.init_infected - Last(history.S)

\* A run in which an exposure, an onset, a recovery and a vaccination have
\* been counted.
TotalsAgreeWithCountsWitness ==
    /\ pc = "returned"
    /\ totals.E > cfg.init_exposed
    /\ totals.I > cfg.init_infected
    /\ totals.R >= 1
    /\ totals.V >= 1

\* C25: a day-step that begins with no Exposed and no Infectious agent
\* leaves every agent's health state and the S, E, I, R counts as they
\* were and Q at 0, so extinction lasts to the end of the run; only the
\* vaccinated count may change.
Extinct == CountOf(states, EXPOSED) = 0 /\ CountOf(states, INFECTIOUS) = 0

ExtinctionAbsorbing ==
    /\ [][(DayStep /\ Extinct)
            => /\ states' = states
               /\ Last(history'.S) = Last(history.S)
               /\ Last(history'.E) = 0
               /\ Last(history'.I) = 0
               /\ Last(history'.R) = Last(history.R)
               /\ Last(history'.Q) = 0
               /\ quarantined' = quarantined]_vars
    /\ [](\A d \in DOMAIN history.S :
            (history.E[d] = 0 /\ history.I[d] = 0)
                => \A k \in DOMAIN history.S :
                    k > d => /\ history.S[k] = history.S[d]
                             /\ history.E[k] = 0
                             /\ history.I[k] = 0
                             /\ history.R[k] = history.R[d]
                             /\ history.Q[k] = 0)

\* The epidemic died out with a susceptible agent left, who was vaccinated
\* on a later day.
ExtinctionAbsorbingWitness ==
    /\ pc = "returned"
    /\ cfg.days = MaxDays
    /\ history.I[1] >= 1
    /\ history.E[2] = 0
    /\ history.I[2] = 0
    /\ history.S[2] >= 1
    /\ history.V[2] = 0
    /\ Last(history.V) >= 1
\* C23: after any sequence of apply_quarantine, apply_masking and
\* apply_distancing calls, successful or failed, no intervention has its
\* day-trigger flag and its threshold-trigger flag both true.
OneTriggerKind ==
    /\ ~(cfg.quarantine_enabled_day /\ cfg.quarantine_enabled_threshold)
    /\ ~(cfg.mask_enabled_day /\ cfg.mask_enabled_threshold)
    /\ ~(cfg.distancing_enabled_day /\ cfg.distancing_enabled_threshold)
\* The agents that can transmit: Infectious and not quarantined.
FreeInfectious(st, q) ==
    {j \in DOMAIN st : st[j] = INFECTIOUS /\ q[j] # QUARANTINED}

\* C22: the decisions of a day-step read only the arrays of the beginning
\* of the day and write only the buffers: the loop ends with the same
\* buffers whatever the order of the agents, each agent's outcome being
\* drawn from the snapshot alone; the day-step installs one of them; and
\* when the snapshot holds no Infectious agent out of quarantine no
\* Susceptible agent is exposed, so S[d+1] = S[d].
SnapshotReads ==
    /\ []((pc = "running" /\ LoopContinues(cfg, day))
            => LET start == {Buffers(states, quarantined)}
                   independent ==
                       {Buffers([i \in DOMAIN states |-> o[i].state],
                                NewQuarantined(states, quarantined, o)) :
                           o \in DayOutcomes(cfg, day, states, quarantined)}
               IN  \A order \in Orders(cfg.N) :
                       Loop(cfg, day, states, quarantined, start, order)
                           = independent)
    /\ [][DayStep
            => /\ Buffers(states', quarantined')
                    \in Loop(cfg, day, states, quarantined,
                             {Buffers(states, quarantined)},
                             IndexOrder(cfg.N))
               /\ FreeInfectious(states, quarantined) = {}
                    => /\ \A i \in DOMAIN states :
                            states[i] = SUSCEPTIBLE
                                => states'[i] = SUSCEPTIBLE
                       /\ Last(history'.S) = Last(history.S)]_vars

\* An exposed agent became Infectious in a day-step with a positive
\* transmission probability, and the susceptible agent beside it was not
\* exposed in that step; another day-step is to come.
SnapshotReadsWitness ==
    /\ pc = "running"
    /\ LoopContinues(cfg, day)
    /\ day = 1
    /\ cfg.beta > 0
    /\ cfg.act_rate = cfg.N
    /\ history.E[1] = 1
    /\ history.I[1] = 0
    /\ history.I[2] = 1
    /\ history.S[1] = 1
    /\ history.S[2] = 1
====
